---- MODULE Spec2Model ----
(***************************************************************************)
(* Model of the video ingestion / import coordination core of              *)
(* server/controllers/api/videos/index.ts (and the import controller that  *)
(* follows it in the same file): viewVideo, addVideo and its detached      *)
(* torrent/federation chain, removeVideo, updateVideo, addVideoImport.     *)
(*                                                                         *)
(* Each handler is a small process whose program counter advances at the   *)
(* handler's await points.  One specification per handler family keeps the *)
(* state spaces apart; every specification constrains all variables.       *)
(***************************************************************************)
EXTENDS Integers, FiniteSets, Sequences, TLC

VARIABLES
  \* ---- viewVideo ----
  viewKeys,     \* Redis dedup store: set of <<ip, video>> keys not yet expired
  vodViews,     \* Redis VOD view counter, per video
  liveViews,    \* LiveManager per-video view aggregator
  sentViews,    \* number of sendView() federations, per video
  viewReq,      \* per request slot: position and captured values
  viewEpoch,    \* per <<ip, video>>: how many dedup windows have elapsed
  \* ---- addVideo, its detached chain, removeVideo ----
  addIn,        \* the upload request: [transcoding, retry, schedule]
  addPc,        \* position of the addVideo handler
  addAttempt,   \* attempt number under asyncRetryTransactionMiddleware
  memVideo,     \* in-memory VideoModel of the current attempt
  memFile,      \* in-memory VideoFileModel of the current attempt (fileArg)
  physFile,     \* videoPhysicalFile.path as the handler believes it, and the file's real place
  addTx,        \* writes of the open transaction, not yet durable
  addFailedAt,  \* transaction steps after which an attempt has failed
  dbVideos,     \* committed video rows, by id
  dbFiles,      \* committed video file rows, by id
  dbExtras,     \* committed thumbnails, tags, schedule, channel mark, blacklist, per video
  torrentFiles, \* torrent artifacts on disk, by file id
  chainPc,      \* position of the detached post-commit chain
  refreshedFile,\* the file row as reloaded by the torrent stage
  chainLog,     \* what the chain has done, in order
  jobs,         \* transcode jobs acknowledged by the queue
  addResponse,  \* the response of the upload request
  fileWrites,   \* writes the torrent stage made to file rows
  chainVideo,   \* refreshedVideo: the video as the chain re-read it
  chainSent,    \* calls the chain made to the notifier and to federation, with their video
  \* ---- updateVideo ----
  updIn,        \* the update request: [patch, channel] (res.locals.videoChannel)
  updPc,        \* position of the updateVideo handler
  updAttempt,   \* attempt number under asyncRetryTransactionMiddleware
  videoInstance,\* res.locals.videoAll: [data, changed], kept across attempts
  videoFieldsSave, \* the snapshot videoInstance.toJSON() of the current attempt
  updFlags,     \* [had, confidential, isNew]: captured before / in the transaction
  updTx,        \* the open transaction: [open, done, row, tags, schedule]
  updDb,        \* durable state: [row, tags, schedule]
  updOrig,      \* durable state when the request arrived
  updLog,       \* what the current attempt has done, in order
  updResponse,  \* the response of the update request
  \* ---- addVideoImport ----
  impIn,        \* the import request: [targetUrl, magnetUri, torrentfile, thumbnailfile, previewfile]
  impPc,        \* position of the import handler
  impAttempt,   \* attempt number under asyncRetryTransactionMiddleware
  impMem,       \* the handler's locals
  impDb,        \* durable state: [videos, imports, thumbnails, captions]
  impJobs,      \* video-import jobs acknowledged by the queue, in order
  impResponse,  \* the response of the import request
  \* ---- buildVideo ----
  bvBody,       \* the request body handed to buildVideo
  bvImportData, \* the extractor data handed to buildVideo
  bvVideo,      \* the descriptor buildVideo returned
  bvPc          \* "start" before the call, "built" after it

viewVars == <<viewKeys, vodViews, liveViews, sentViews, viewReq, viewEpoch>>

addVars == <<addIn, addPc, addAttempt, memVideo, memFile, physFile, addTx, addFailedAt,
             dbVideos, dbFiles, dbExtras, torrentFiles, chainPc, refreshedFile,
             chainLog, jobs, addResponse, fileWrites, chainVideo, chainSent>>

updVars == <<updIn, updPc, updAttempt, videoInstance, videoFieldsSave, updFlags, updTx,
             updDb, updOrig, updLog, updResponse>>

impVars == <<impIn, impPc, impAttempt, impMem, impDb, impJobs, impResponse>>

bvVars == <<bvBody, bvImportData, bvVideo, bvPc>>

nonViewVars == <<addVars, updVars, impVars, bvVars>>

nonAddVars == <<viewVars, updVars, impVars, bvVars>>

nonUpdVars == <<viewVars, addVars, impVars, bvVars>>

nonImpVars == <<viewVars, addVars, updVars, bvVars>>

nonBvVars == <<viewVars, addVars, updVars, impVars>>

vars == <<viewVars, addVars, updVars, impVars, bvVars>>

None == "none"

\* An absent value where present values are tuples (paths, hashes, loaded rows).
Nil == <<>>

(***************************************************************************)
(* Bounds                                                                  *)
(***************************************************************************)
NumViewReqs == 3      \* view requests issued in one behaviour
MaxEpoch == 2         \* dedup-window expirations per (ip, video)
MaxAttempts == 3      \* attempts the retry middleware makes for one request
MaxFileRev == 1       \* concurrent changes other workers make to a file row
MaxTorrentFiles == 2  \* files a torrent container describes
MaxSubtitles == 2     \* subtitles youtube-dl discovers

(***************************************************************************)
(*                              viewVideo                                  *)
(***************************************************************************)
Ips == {"ipA", "ipB"}

\* The catalogue the view requests address: a VOD, a live stream of this
\* instance, a live stream of a remote instance.
ViewVideos == {"vod", "liveLocal", "liveRemote"}

isLive(v) == v \in {"liveLocal", "liveRemote"}

isOwned(v) == v \in {"vod", "liveLocal"}

ViewReqs == 1..NumViewReqs

IdleReq == [pc |-> "idle", ip |-> None, video |-> None, epoch |-> 0, exists |-> FALSE]

\* Mutant: the dedup lookup never finds the key.
doesVideoIPViewExistNever(ip, v) == FALSE

\* Redis.Instance.doesVideoIPViewExist(ip, uuid)
doesVideoIPViewExist(ip, v) == <<ip, v>> \in viewKeys

\* `if (video.isLive && video.isOwned())`: the view goes to the live manager
addsLiveView(v) == isLive(v) /\ isOwned(v)

\* Mutant: every counted view goes to the VOD counter.
addsVideoViewAlways(v) == TRUE

\* `if (!video.isLive)`: the view goes to the VOD counter
addsVideoView(v) == ~isLive(v)

\* Mutant: federateView is never switched off.
federateViewAlways(v) == TRUE

\* `federateView`: true unless the video is a live of this instance
federateView(v) == ~(isLive(v) /\ isOwned(v))

\* viewVideo up to its first await: the dedup lookup and the early return.
ViewVideoCheck(r, ip, v) ==
  /\ viewReq[r].pc = "idle"
  /\ \A q \in ViewReqs : q < r => viewReq[q].pc # "idle"
  /\ LET exists == doesVideoIPViewExist(ip, v)
     IN viewReq' = [viewReq EXCEPT ![r] =
          [pc |-> IF exists THEN "done" ELSE "checked",
           ip |-> ip, video |-> v, epoch |-> viewEpoch[<<ip, v>>], exists |-> exists]]
  /\ UNCHANGED <<viewKeys, vodViews, liveViews, sentViews, viewEpoch>>
  /\ UNCHANGED nonViewVars

\* viewVideo after the lookup said "not recorded": load the video, set the
\* dedup key, count the view where it belongs, federate, answer 204.
ViewVideoRecord(r) ==
  /\ viewReq[r].pc = "checked"
  /\ LET ip == viewReq[r].ip
         v == viewReq[r].video
     IN /\ viewKeys' = viewKeys \cup {<<ip, v>>}
        /\ liveViews' = IF addsLiveView(v)
                          THEN [liveViews EXCEPT ![v] = @ + 1] ELSE liveViews
        /\ vodViews' = IF addsVideoView(v)
                         THEN [vodViews EXCEPT ![v] = @ + 1] ELSE vodViews
        /\ sentViews' = IF federateView(v)
                          THEN [sentViews EXCEPT ![v] = @ + 1] ELSE sentViews
  /\ viewReq' = [viewReq EXCEPT ![r].pc = "done"]
  /\ UNCHANGED viewEpoch
  /\ UNCHANGED nonViewVars

\* The dedup key's expiry window elapses in the view store.
ExpireView(ip, v) ==
  /\ <<ip, v>> \in viewKeys
  /\ viewEpoch[<<ip, v>>] < MaxEpoch
  /\ viewKeys' = viewKeys \ {<<ip, v>>}
  /\ viewEpoch' = [viewEpoch EXCEPT ![<<ip, v>>] = @ + 1]
  /\ UNCHANGED <<vodViews, liveViews, sentViews, viewReq>>
  /\ UNCHANGED nonViewVars

NoViewInFlight == \A r \in ViewReqs : viewReq[r].pc # "checked"

ViewQuiet ==
  /\ viewKeys = {}
  /\ vodViews = [v \in ViewVideos |-> 0]
  /\ liveViews = [v \in ViewVideos |-> 0]
  /\ sentViews = [v \in ViewVideos |-> 0]
  /\ viewReq = [r \in ViewReqs |-> IdleReq]
  /\ viewEpoch = [k \in Ips \X ViewVideos |-> 0]

(***************************************************************************)
(*              addVideo, its detached chain, removeVideo                  *)
(***************************************************************************)
ToTranscode == "ToTranscode"

Published == "Published"

\* The steps of addVideo's transaction body, in the order of the code.
AddTxSteps == <<"video", "thumbnail", "preview", "file", "tags", "schedule",
                "channel", "blacklist">>

NoTx == [open |-> FALSE, done |-> 0, video |-> FALSE, file |-> FALSE, extras |-> {}]

NoVideo == [id |-> 0, state |-> None]

NoResponse == [status |-> None, video |-> 0]

ErrorResponse == [status |-> "error", video |-> 0]

NoFile == [id |-> 0, videoId |-> 0, filename |-> Nil, infoHash |-> Nil,
           torrentFilename |-> Nil]

\* generateVideoFilename(video, false, resolution, extname): a function of the
\* video's identity (the resolution and extension are fixed for one upload).
generateVideoFilename(video) == <<"file", video.id>>

\* getVideoFilePath(video, videoFile)
getVideoFilePath(file) == <<"videos", file.filename>>

\* addVideo up to the metadata probe: a new VideoModel and VideoFileModel are
\* built for this attempt (a new object, hence a new identity, per attempt).
AddBuild ==
  /\ addPc = "start"
  /\ memVideo' = [id |-> addAttempt,
                  state |-> IF addIn.transcoding THEN ToTranscode ELSE Published]
  /\ memFile' = [NoFile EXCEPT !.id = addAttempt,
                   !.filename = generateVideoFilename([id |-> addAttempt])]
  /\ addPc' = "built"
  /\ UNCHANGED <<addIn, addAttempt, physFile, addTx, addFailedAt, dbVideos, dbFiles,
                 dbExtras, torrentFiles, chainPc, refreshedFile, chainLog, jobs,
                 addResponse, fileWrites>>
  /\ UNCHANGED <<chainVideo, chainSent>>
  /\ UNCHANGED nonAddVars

\* getMetadataFromFile / getVideoFileFPS / getVideoFileResolution reject.
AddProbeFail ==
  /\ addPc = "start"
  /\ addPc' = "done"
  /\ addResponse' = ErrorResponse
  /\ UNCHANGED <<addIn, addAttempt, memVideo, memFile, physFile, addTx, addFailedAt,
                 dbVideos, dbFiles, dbExtras, torrentFiles, chainPc, refreshedFile,
                 chainLog, jobs, fileWrites>>
  /\ UNCHANGED <<chainVideo, chainSent>>
  /\ UNCHANGED nonAddVars

\* Mutant: the new place of the file is not recorded in videoPhysicalFile.
AddMoveForgetsPath ==
  /\ addPc = "built"
  /\ LET destination == getVideoFilePath(memFile)
     IN IF physFile.path = physFile.at
          THEN /\ physFile' = [path |-> physFile.path, at |-> destination]
               /\ addPc' = "moved"
               /\ UNCHANGED addResponse
          ELSE /\ addPc' = "done"
               /\ addResponse' = ErrorResponse
               /\ UNCHANGED physFile
  /\ UNCHANGED <<addIn, addAttempt, memVideo, memFile, addTx, addFailedAt, dbVideos,
                 dbFiles, dbExtras, torrentFiles, chainPc, refreshedFile, chainLog,
                 jobs, fileWrites>>
  /\ UNCHANGED <<chainVideo, chainSent>>
  /\ UNCHANGED nonAddVars

\* move(videoPhysicalFile.path, destination), then the handler records the new
\* place in videoPhysicalFile for a later attempt.  The move rejects when the
\* source is not where videoPhysicalFile.path says.
AddMove ==
  /\ addPc = "built"
  /\ LET destination == getVideoFilePath(memFile)
     IN IF physFile.path = physFile.at
          THEN /\ physFile' = [path |-> destination, at |-> destination]
               /\ addPc' = "moved"
               /\ UNCHANGED addResponse
          ELSE /\ addPc' = "done"
               /\ addResponse' = ErrorResponse
               /\ UNCHANGED physFile
  /\ UNCHANGED <<addIn, addAttempt, memVideo, memFile, addTx, addFailedAt, dbVideos,
                 dbFiles, dbExtras, torrentFiles, chainPc, refreshedFile, chainLog,
                 jobs, fileWrites>>
  /\ UNCHANGED <<chainVideo, chainSent>>
  /\ UNCHANGED nonAddVars

\* buildVideoThumbnailsFromReq, then sequelizeTypescript.transaction opens.
AddTxBegin ==
  /\ addPc = "moved"
  /\ addTx' = [NoTx EXCEPT !.open = TRUE]
  /\ addPc' = "tx"
  /\ UNCHANGED <<addIn, addAttempt, memVideo, memFile, physFile, addFailedAt, dbVideos,
                 dbFiles, dbExtras, torrentFiles, chainPc, refreshedFile, chainLog,
                 jobs, addResponse, fileWrites>>
  /\ UNCHANGED <<chainVideo, chainSent>>
  /\ UNCHANGED nonAddVars

\* One awaited statement of the transaction body.  Its write is held by the
\* transaction; nothing is durable before the commit.
AddTxStep ==
  /\ addPc = "tx"
  /\ addTx.done < Len(AddTxSteps)
  /\ LET step == AddTxSteps[addTx.done + 1]
     IN /\ addTx' = [addTx EXCEPT
             !.done = @ + 1,
             !.video = @ \/ step = "video",
             !.file = @ \/ step = "file",
             !.extras = IF step \in {"video", "file"} \/ (step = "schedule" /\ ~addIn.schedule)
                          THEN @ ELSE @ \cup {step}]
        /\ memFile' = IF step = "file"
                        THEN [memFile EXCEPT !.videoId = memVideo.id] ELSE memFile
  /\ UNCHANGED <<addIn, addPc, addAttempt, memVideo, physFile, addFailedAt, dbVideos,
                 dbFiles, dbExtras, torrentFiles, chainPc, refreshedFile, chainLog,
                 jobs, addResponse, fileWrites>>
  /\ UNCHANGED <<chainVideo, chainSent>>
  /\ UNCHANGED nonAddVars

\* The file row as videoFile.save() inserts it.
NewFileRow(file) == [videoId |-> file.videoId, filename |-> file.filename,
                     infoHash |-> file.infoHash,
                     torrentFilename |-> file.torrentFilename, rev |-> 0]

\* The transaction body returned: COMMIT makes all of its writes durable at once.
AddTxCommit ==
  /\ addPc = "tx"
  /\ addTx.done = Len(AddTxSteps)
  /\ dbVideos' = [i \in DOMAIN dbVideos \cup {memVideo.id} |->
                    IF i = memVideo.id THEN [state |-> memVideo.state] ELSE dbVideos[i]]
  /\ dbFiles' = [i \in DOMAIN dbFiles \cup {memFile.id} |->
                    IF i = memFile.id THEN NewFileRow(memFile) ELSE dbFiles[i]]
  /\ dbExtras' = [i \in DOMAIN dbExtras \cup {memVideo.id} |->
                    IF i = memVideo.id THEN addTx.extras ELSE dbExtras[i]]
  /\ addTx' = NoTx
  /\ addPc' = "committed"
  /\ UNCHANGED <<addIn, addAttempt, memVideo, memFile, physFile, addFailedAt,
                 torrentFiles, chainPc, refreshedFile, chainLog, jobs, addResponse,
                 fileWrites>>
  /\ UNCHANGED <<chainVideo, chainSent>>
  /\ UNCHANGED nonAddVars

\* What the handler does with a rejected transaction: under
\* asyncRetryTransactionMiddleware (the legacy upload) a transient conflict
\* re-runs the whole handler; otherwise the request fails.
AfterTxFailure(transient) ==
  IF transient /\ addIn.retry /\ addAttempt < MaxAttempts
    THEN /\ addAttempt' = addAttempt + 1
         /\ addPc' = "start"
         /\ UNCHANGED addResponse
    ELSE /\ addPc' = "done"
         /\ addResponse' = ErrorResponse
         /\ UNCHANGED addAttempt

\* Mutant: no transaction; the writes made before the failure stay.
AddTxFailKeepsWrites ==
  /\ addPc = "tx"
  /\ addTx' = NoTx
  /\ addFailedAt' = addFailedAt \cup {addTx.done}
  /\ dbVideos' = IF addTx.video
                   THEN [i \in DOMAIN dbVideos \cup {memVideo.id} |->
                           IF i = memVideo.id THEN [state |-> memVideo.state] ELSE dbVideos[i]]
                   ELSE dbVideos
  /\ dbFiles' = IF addTx.file
                  THEN [i \in DOMAIN dbFiles \cup {memFile.id} |->
                          IF i = memFile.id THEN NewFileRow(memFile) ELSE dbFiles[i]]
                  ELSE dbFiles
  /\ \E transient \in BOOLEAN : AfterTxFailure(transient)
  /\ UNCHANGED <<addIn, memVideo, memFile, physFile, dbExtras,
                 torrentFiles, chainPc, refreshedFile, chainLog, jobs, fileWrites>>
  /\ UNCHANGED <<chainVideo, chainSent>>
  /\ UNCHANGED nonAddVars

\* Mutant: the rejection of the transaction is swallowed and the handler
\* goes on as after a commit.
AddTxFailGoesOn ==
  /\ addPc = "tx"
  /\ addTx' = NoTx
  /\ addFailedAt' = addFailedAt \cup {addTx.done}
  /\ addPc' = "committed"
  /\ UNCHANGED <<addIn, addAttempt, memVideo, memFile, physFile, dbVideos, dbFiles,
                 dbExtras, torrentFiles, chainPc, refreshedFile, chainLog, jobs,
                 addResponse, fileWrites>>
  /\ UNCHANGED <<chainVideo, chainSent>>
  /\ UNCHANGED nonAddVars

\* A statement of the transaction body (or the COMMIT) rejects:
\* sequelize rolls the transaction back, none of its writes becomes durable.
AddTxFail ==
  /\ addPc = "tx"
  /\ addTx' = NoTx
  /\ addFailedAt' = addFailedAt \cup {addTx.done}
  /\ \E transient \in BOOLEAN : AfterTxFailure(transient)
  /\ UNCHANGED <<addIn, memVideo, memFile, physFile, dbVideos, dbFiles, dbExtras,
                 torrentFiles, chainPc, refreshedFile, chainLog, jobs, fileWrites>>
  /\ UNCHANGED <<chainVideo, chainSent>>
  /\ UNCHANGED nonAddVars

\* After the commit: the detached chain is started (not awaited).
AddStartChain ==
  /\ addPc = "committed"
  /\ chainPc' = "torrent"
  /\ addPc' = IF memVideo.state = ToTranscode THEN "job" ELSE "respond"
  /\ UNCHANGED <<addIn, addAttempt, memVideo, memFile, physFile, addTx, addFailedAt,
                 dbVideos, dbFiles, dbExtras, torrentFiles, refreshedFile, chainLog,
                 jobs, addResponse, fileWrites>>
  /\ UNCHANGED <<chainVideo, chainSent>>
  /\ UNCHANGED nonAddVars

\* Mutant: the enqueue is not awaited; the handler goes on to its answer.
AddEnqueueJobNotAwaited ==
  /\ addPc = "job"
  /\ addPc' = "respond"
  /\ UNCHANGED <<addIn, addAttempt, memVideo, memFile, physFile, addTx, addFailedAt,
                 dbVideos, dbFiles, dbExtras, torrentFiles, chainPc, refreshedFile,
                 chainLog, jobs, addResponse, fileWrites>>
  /\ UNCHANGED <<chainVideo, chainSent>>
  /\ UNCHANGED nonAddVars

\* await addOptimizeOrMergeAudioJob(videoCreated, videoFile, user)
AddEnqueueJob ==
  /\ addPc = "job"
  /\ \/ /\ jobs' = jobs \cup {[type |-> "transcode", videoId |-> memVideo.id]}
        /\ addPc' = "respond"
        /\ UNCHANGED addResponse
     \/ /\ addPc' = "done"
        /\ addResponse' = ErrorResponse
        /\ UNCHANGED jobs
  /\ UNCHANGED <<addIn, addAttempt, memVideo, memFile, physFile, addTx, addFailedAt,
                 dbVideos, dbFiles, dbExtras, torrentFiles, chainPc, refreshedFile,
                 chainLog, fileWrites>>
  /\ UNCHANGED <<chainVideo, chainSent>>
  /\ UNCHANGED nonAddVars

\* res.json({ video: { id, uuid } })
AddRespond ==
  /\ addPc = "respond"
  /\ addResponse' = [status |-> "ok", video |-> memVideo.id]
  /\ addPc' = "done"
  /\ UNCHANGED <<addIn, addAttempt, memVideo, memFile, physFile, addTx, addFailedAt,
                 dbVideos, dbFiles, dbExtras, torrentFiles, chainPc, refreshedFile,
                 chainLog, jobs, fileWrites>>
  /\ UNCHANGED <<chainVideo, chainSent>>
  /\ UNCHANGED nonAddVars

\* createTorrentAndSetInfoHash(video, fileArg): writes the torrent artifact and
\* sets infoHash and torrentFilename on the in-memory file only.
createTorrentAndSetInfoHash(file) ==
  [file EXCEPT !.infoHash = <<"hash", file.id>>, !.torrentFilename = <<"torrent", file.id>>]

\* Mutant: the torrent stage is started but the rest of the chain does not
\* wait for it.
ChainCreateTorrentNotAwaited ==
  /\ chainPc = "torrent"
  /\ chainPc' = "loadVideo"
  /\ UNCHANGED <<addIn, addPc, addAttempt, memVideo, memFile, physFile, addTx,
                 addFailedAt, dbVideos, dbFiles, dbExtras, torrentFiles, refreshedFile,
                 chainLog, jobs, addResponse, fileWrites>>
  /\ UNCHANGED <<chainVideo, chainSent>>
  /\ UNCHANGED nonAddVars

\* Mutant: a rejected torrent creation ends the chain.
ChainCreateTorrentTerminal ==
  /\ chainPc = "torrent"
  /\ \/ /\ memFile' = createTorrentAndSetInfoHash(memFile)
        /\ torrentFiles' = torrentFiles \cup {memFile.id}
        /\ chainLog' = Append(chainLog, "torrentCreated")
        /\ chainPc' = "reload"
     \/ /\ chainLog' = Append(chainLog, "torrentFailed")
        /\ chainPc' = "done"
        /\ UNCHANGED <<memFile, torrentFiles>>
  /\ UNCHANGED <<addIn, addPc, addAttempt, memVideo, physFile, addTx, addFailedAt,
                 dbVideos, dbFiles, dbExtras, refreshedFile, jobs, addResponse,
                 fileWrites>>
  /\ UNCHANGED <<chainVideo, chainSent>>
  /\ UNCHANGED nonAddVars

\* First await of createTorrentAndSetInfoHashAsync.  A rejection is logged by
\* the chain's first .catch, after which the chain goes on.
ChainCreateTorrent ==
  /\ chainPc = "torrent"
  /\ \/ /\ memFile' = createTorrentAndSetInfoHash(memFile)
        /\ torrentFiles' = torrentFiles \cup {memFile.id}
        /\ chainLog' = Append(chainLog, "torrentCreated")
        /\ chainPc' = "reload"
     \/ /\ chainLog' = Append(chainLog, "torrentFailed")
        /\ chainPc' = "loadVideo"
        /\ UNCHANGED <<memFile, torrentFiles>>
  /\ UNCHANGED <<addIn, addPc, addAttempt, memVideo, physFile, addTx, addFailedAt,
                 dbVideos, dbFiles, dbExtras, refreshedFile, jobs, addResponse,
                 fileWrites>>
  /\ UNCHANGED <<chainVideo, chainSent>>
  /\ UNCHANGED nonAddVars

\* VideoFileModel.loadWithVideo(fileArg.id)
loadWithVideo(id) == IF id \in DOMAIN dbFiles THEN <<dbFiles[id]>> ELSE Nil

\* The reload of the file row; `if (!refreshedFile) return fileArg.removeTorrent()`.
\* A rejected query is logged by the chain's first .catch.
ChainReloadFile ==
  /\ chainPc = "reload"
  /\ \/ LET refreshed == loadWithVideo(memFile.id)
        IN /\ refreshedFile' = refreshed
           /\ IF refreshed = Nil
                THEN /\ torrentFiles' = torrentFiles \ {memFile.id}
                     /\ chainLog' = Append(chainLog, "torrentDiscarded")
                     /\ chainPc' = "loadVideo"
                ELSE /\ chainPc' = "save"
                     /\ UNCHANGED <<torrentFiles, chainLog>>
     \/ /\ chainLog' = Append(chainLog, "torrentFailed")
        /\ chainPc' = "loadVideo"
        /\ UNCHANGED <<refreshedFile, torrentFiles>>
  /\ UNCHANGED <<addIn, addPc, addAttempt, memVideo, memFile, physFile, addTx,
                 addFailedAt, dbVideos, dbFiles, dbExtras, jobs, addResponse, fileWrites>>
  /\ UNCHANGED <<chainVideo, chainSent>>
  /\ UNCHANGED nonAddVars

\* Mutant: the stale in-memory file is written over the row.
SaveStaleFile(row, fileArg) == NewFileRow(fileArg)

\* refreshedFile.infoHash = fileArg.infoHash; refreshedFile.torrentFilename =
\* fileArg.torrentFilename; refreshedFile.save(): the two changed columns are
\* written to the row, the others are left as they are in the database.
SaveRefreshedFile(row, fileArg) ==
  [row EXCEPT !.infoHash = fileArg.infoHash, !.torrentFilename = fileArg.torrentFilename]

\* refreshedFile.save(): an UPDATE by id, which touches no row when the row
\* was deleted after the reload.
ChainSaveFile ==
  /\ chainPc = "save"
  /\ \/ /\ IF memFile.id \in DOMAIN dbFiles
             THEN /\ dbFiles' = [dbFiles EXCEPT
                       ![memFile.id] = SaveRefreshedFile(dbFiles[memFile.id], memFile)]
                  /\ fileWrites' = fileWrites + 1
             ELSE UNCHANGED <<dbFiles, fileWrites>>
        /\ chainLog' = Append(chainLog, "infoHashSaved")
     \/ /\ chainLog' = Append(chainLog, "torrentFailed")
        /\ UNCHANGED <<dbFiles, fileWrites>>
  /\ chainPc' = "loadVideo"
  /\ UNCHANGED <<addIn, addPc, addAttempt, memVideo, memFile, physFile, addTx,
                 addFailedAt, dbVideos, dbExtras, torrentFiles, refreshedFile, jobs,
                 addResponse>>
  /\ UNCHANGED <<chainVideo, chainSent>>
  /\ UNCHANGED nonAddVars

\* The `video` object the handler built and saved, with the file it attached,
\* as the chain's closures still hold it.
InMemoryVideo == [id |-> memVideo.id, state |-> memVideo.state,
                  files |-> {NewFileRow(memFile)}]

\* VideoModel.loadAndPopulateAccountAndServerAndTags(id): the video row with
\* its associations, among them its file rows, as the database has them now.
loadAndPopulateAccountAndServerAndTags(id) ==
  IF id \in DOMAIN dbVideos
    THEN <<[id |-> id, state |-> dbVideos[id].state,
            files |-> {dbFiles[f] : f \in {g \in DOMAIN dbFiles : dbFiles[g].videoId = id}}]>>
    ELSE Nil

\* .then(() => VideoModel.loadAndPopulateAccountAndServerAndTags(video.id))
\* .then(refreshedVideo => { if (!refreshedVideo) return; Notifier...notifyOnNewVideoIfNeeded })
ChainLoadVideo ==
  /\ chainPc = "loadVideo"
  /\ \/ LET refreshedVideo == loadAndPopulateAccountAndServerAndTags(memVideo.id)
        IN /\ chainVideo' = refreshedVideo
           /\ IF refreshedVideo # Nil
                THEN /\ chainLog' = Append(chainLog, "notify")
                     /\ chainSent' = Append(chainSent, [call |-> "notifyOnNewVideoIfNeeded",
                                                        video |-> refreshedVideo[1]])
                     /\ chainPc' = "federate"
                ELSE /\ chainLog' = Append(chainLog, "videoMissing")
                     /\ chainPc' = "done"
                     /\ UNCHANGED chainSent
     \/ /\ chainLog' = Append(chainLog, "loadFailed")
        /\ chainPc' = "done"
        /\ UNCHANGED <<chainVideo, chainSent>>
  /\ UNCHANGED <<addIn, addPc, addAttempt, memVideo, memFile, physFile, addTx,
                 addFailedAt, dbVideos, dbFiles, dbExtras, torrentFiles, refreshedFile,
                 jobs, addResponse, fileWrites>>
  /\ UNCHANGED nonAddVars

\* Mutant: a rejected federation fails the request that started the chain.
ChainFederateSurfaces ==
  /\ chainPc = "federate"
  /\ \E ok \in BOOLEAN :
       /\ chainLog' = Append(chainLog, IF ok THEN "federate" ELSE "federateFailed")
       /\ addResponse' = IF ok THEN addResponse ELSE ErrorResponse
  /\ chainSent' = Append(chainSent, [call |-> "federateVideoIfNeeded", video |-> chainVideo[1]])
  /\ chainPc' = "done"
  /\ UNCHANGED <<addIn, addPc, addAttempt, memVideo, memFile, physFile, addTx,
                 addFailedAt, dbVideos, dbFiles, dbExtras, torrentFiles, refreshedFile,
                 jobs, fileWrites, chainVideo>>
  /\ UNCHANGED nonAddVars

\* Mutant: federation is handed the object the handler built.
ChainFederateInMemory ==
  /\ chainPc = "federate"
  /\ \E ok \in BOOLEAN :
       chainLog' = Append(chainLog, IF ok THEN "federate" ELSE "federateFailed")
  /\ chainSent' = Append(chainSent, [call |-> "federateVideoIfNeeded", video |-> InMemoryVideo])
  /\ chainPc' = "done"
  /\ UNCHANGED <<addIn, addPc, addAttempt, memVideo, memFile, physFile, addTx,
                 addFailedAt, dbVideos, dbFiles, dbExtras, torrentFiles, refreshedFile,
                 jobs, addResponse, fileWrites, chainVideo>>
  /\ UNCHANGED nonAddVars

\* retryTransactionWrapper(() => transaction(t => federateVideoIfNeeded(refreshedVideo, true, t)));
\* a rejection (after the wrapper's own attempts) is logged by the last .catch.
ChainFederate ==
  /\ chainPc = "federate"
  /\ \E ok \in BOOLEAN :
       chainLog' = Append(chainLog, IF ok THEN "federate" ELSE "federateFailed")
  /\ chainSent' = Append(chainSent, [call |-> "federateVideoIfNeeded", video |-> chainVideo[1]])
  /\ chainPc' = "done"
  /\ UNCHANGED <<addIn, addPc, addAttempt, memVideo, memFile, physFile, addTx,
                 addFailedAt, dbVideos, dbFiles, dbExtras, torrentFiles, refreshedFile,
                 jobs, addResponse, fileWrites, chainVideo>>
  /\ UNCHANGED nonAddVars

\* videoInstance.destroy(): the video's file rows go with the video row, and the
\* torrent artifacts the file rows name are removed from disk.
DestroyVideo(id) ==
  LET gone == {f \in DOMAIN dbFiles : dbFiles[f].videoId = id}
  IN /\ dbVideos' = [i \in DOMAIN dbVideos \ {id} |-> dbVideos[i]]
     /\ dbFiles' = [f \in DOMAIN dbFiles \ gone |-> dbFiles[f]]
     /\ dbExtras' = [i \in DOMAIN dbExtras \ {id} |-> dbExtras[i]]
     /\ torrentFiles' = torrentFiles \ {f \in gone : dbFiles[f].torrentFilename # Nil}

\* removeVideo: one transaction destroying the video the validator loaded.
RemoveVideo ==
  /\ \E id \in DOMAIN dbVideos : DestroyVideo(id)
  /\ UNCHANGED <<addIn, addPc, addAttempt, memVideo, memFile, physFile, addTx,
                 addFailedAt, chainPc, refreshedFile, chainLog, jobs, addResponse,
                 fileWrites>>
  /\ UNCHANGED <<chainVideo, chainSent>>
  /\ UNCHANGED nonAddVars

\* Another worker changes a column of a file row while the torrent is made.
OtherFileUpdate ==
  /\ \E f \in DOMAIN dbFiles :
       /\ dbFiles[f].rev < MaxFileRev
       /\ dbFiles' = [dbFiles EXCEPT ![f].rev = @ + 1]
  /\ UNCHANGED <<addIn, addPc, addAttempt, memVideo, memFile, physFile, addTx,
                 addFailedAt, dbVideos, dbExtras, torrentFiles, chainPc, refreshedFile,
                 chainLog, jobs, addResponse, fileWrites>>
  /\ UNCHANGED <<chainVideo, chainSent>>
  /\ UNCHANGED nonAddVars

AddInputs == [transcoding : BOOLEAN, retry : BOOLEAN, schedule : BOOLEAN]

\* The add group before any upload request.
AddStart(in, pc) ==
  /\ addIn = in
  /\ addPc = pc
  /\ addAttempt = 1
  /\ memVideo = NoVideo
  /\ memFile = NoFile
  /\ physFile = [path |-> <<"tmp">>, at |-> <<"tmp">>]
  /\ addTx = NoTx
  /\ addFailedAt = {}
  /\ dbVideos = <<>>
  /\ dbFiles = <<>>
  /\ dbExtras = <<>>
  /\ torrentFiles = {}
  /\ chainPc = None
  /\ refreshedFile = Nil
  /\ chainLog = <<>>
  /\ jobs = {}
  /\ addResponse = NoResponse
  /\ fileWrites = 0
  /\ chainVideo = Nil
  /\ chainSent = <<>>

AddQuiet == AddStart([transcoding |-> FALSE, retry |-> FALSE, schedule |-> FALSE], "off")

(***************************************************************************)
(*                              updateVideo                                *)
(***************************************************************************)
Privacies == {"public", "unlisted", "private", "internal"}

\* video.hasPrivacyForFederation(): public and unlisted videos are federated.
hasPrivacyForFederation(privacy) == privacy \in {"public", "unlisted"}

\* video.isConfidential(): the video is not visible to everybody.
isConfidential(privacy) == privacy \in {"unlisted", "private", "internal"}

\* video.isNewVideo(newPrivacy): the update makes a video federated for the first time.
isNewVideo(privacy, newPrivacy) ==
  ~hasPrivacyForFederation(privacy) /\ hasPrivacyForFederation(newPrivacy)

\* A request field that is `undefined`; a present value v is <<v>>.
Undefined == <<>>

Defined(x) == x # Undefined

\* The columns of a video row the update may change.
\* (nsfw stands for the plain attributes, all assigned by the same statement.)
UpdFields == {"nsfw", "privacy", "originallyPublishedAt", "channelId"}

UpdPatches ==
  [nsfw : {Undefined, <<TRUE>>, <<FALSE>>},
   privacy : {Undefined} \cup {<<p>> : p \in Privacies},
   originallyPublishedAt : {Undefined, <<"null">>, <<"d1">>},
   tags : {Undefined, <<"t1">>},
   scheduleUpdate : {"undefined", "null", "s1"}]

UpdRows ==
  [nsfw : BOOLEAN, privacy : Privacies,
   originallyPublishedAt : {"d0"}, channelId : {"c1"}]

\* Mutant: the federation is not a statement of the transaction body.
UpdTxStepsNoFederate == <<"patch", "save", "thumbnails", "tags", "channel", "schedule",
                          "blacklist">>

\* The steps of updateVideo's transaction body, in the order of the code.
UpdTxSteps == <<"patch", "save", "thumbnails", "tags", "channel", "schedule",
                "blacklist", "federate">>

NoUpdTx == [open |-> FALSE, done |-> 0]

\* instance[key] = value on a sequelize instance: the attribute is marked as
\* changed when the value differs from the one the instance holds.
SetField(inst, key, value) ==
  [data |-> [inst.data EXCEPT ![key] = value],
   changed |-> IF inst.data[key] # value THEN inst.changed \cup {key} ELSE inst.changed]

\* `if (videoInfoToUpdate.f !== undefined) videoInstance.f = videoInfoToUpdate.f`
SetIfDefined(inst, key, field) ==
  IF Defined(field) THEN SetField(inst, key, field[1]) ELSE inst

\* `if (v !== undefined && v !== null) videoInstance.originallyPublishedAt = new Date(v)`
SetOriginallyPublishedAt(inst, field) ==
  IF Defined(field) /\ field # <<"null">>
    THEN SetField(inst, "originallyPublishedAt", field[1]) ELSE inst

\* Lines 384-404: the patch applied to the in-memory instance.
ApplyPatch(inst, patch) ==
  LET i1 == SetIfDefined(inst, "nsfw", patch.nsfw)
      i2 == SetOriginallyPublishedAt(i1, patch.originallyPublishedAt)
  IN SetIfDefined(i2, "privacy", patch.privacy)

\* Mutant: the retract does not look at the privacy the video had.
NeedsRetractIgnoringBefore(had, privacy) == ~hasPrivacyForFederation(privacy)

\* `if (hadPrivacyForFederation && !videoInstance.hasPrivacyForFederation())`
NeedsRetract(had, privacy) == had /\ ~hasPrivacyForFederation(privacy)

\* instance.save({ transaction }): the changed attributes are written, and the
\* instance then holds no changed attribute (also when the transaction is
\* rolled back afterwards: see the comment in updateVideo's catch).
SaveRow(row, inst) ==
  [k \in DOMAIN row |-> IF k \in inst.changed THEN inst.data[k] ELSE row[k]]

\* resetSequelizeInstance(instance, savedFields): every saved field is
\* assigned back to the instance.
resetSequelizeInstance(inst, saved) ==
  LET i1 == SetField(inst, "nsfw", saved.nsfw)
      i2 == SetField(i1, "privacy", saved.privacy)
      i3 == SetField(i2, "originallyPublishedAt", saved.originallyPublishedAt)
  IN SetField(i3, "channelId", saved.channelId)

\* Mutant: an explicit null is taken like an absent field.
ScheduleAfterNullKeeps(schedule, scheduleUpdate) ==
  IF scheduleUpdate \in {"undefined", "null"} THEN schedule ELSE scheduleUpdate

\* `if (scheduleUpdate) upsert(...) else if (scheduleUpdate === null) deleteByVideoId(...)`:
\* the video's scheduled update after the statement.
ScheduleAfter(schedule, scheduleUpdate) ==
  CASE scheduleUpdate = "undefined" -> schedule
    [] scheduleUpdate = "null" -> None
    [] OTHER -> scheduleUpdate

\* Mutant: the share is moved for every video that changes channel.
NeedsChangeShareAlways(moves, had) == moves

\* `if (hadPrivacyForFederation === true) await changeVideoChannelShare(...)`,
\* inside the branch taken when the channel changes.
NeedsChangeShare(moves, had) == moves /\ had

\* updateVideo before the try block: the snapshot and the two flags.
UpdBegin ==
  /\ updPc = "start"
  /\ videoFieldsSave' = videoInstance.data
  /\ updFlags' = [had |-> hasPrivacyForFederation(videoInstance.data.privacy),
                  confidential |-> isConfidential(videoInstance.data.privacy),
                  isNew |-> FALSE]
  /\ updTx' = [open |-> TRUE, done |-> 0, row |-> updDb.row, tags |-> updDb.tags,
               schedule |-> updDb.schedule]
  /\ updLog' = <<"begin">>
  /\ updPc' = "tx"
  /\ UNCHANGED <<updIn, updAttempt, videoInstance, updDb, updOrig, updResponse>>
  /\ UNCHANGED nonUpdVars

\* The statements of the transaction body, one awaited statement at a time.
UpdTxStep ==
  /\ updPc = "tx"
  /\ updTx.done < Len(UpdTxSteps)
  /\ LET step == UpdTxSteps[updTx.done + 1]
         patch == updIn.patch
         patched == ApplyPatch(videoInstance, patch)
         moves == Defined(updIn.channel) /\ videoInstance.data.channelId # updIn.channel[1]
     IN CASE step = "patch" ->
               /\ videoInstance' = patched
               /\ updFlags' = [updFlags EXCEPT !.isNew =
                    Defined(patch.privacy)
                      /\ isNewVideo(videoInstance.data.privacy, patch.privacy[1])]
               /\ updLog' = IF Defined(patch.privacy)
                                 /\ NeedsRetract(updFlags.had, patched.data.privacy)
                              THEN Append(updLog, "retract") ELSE updLog
               /\ updTx' = [updTx EXCEPT !.done = @ + 1]
          [] step = "save" ->
               /\ updTx' = [updTx EXCEPT !.done = @ + 1,
                                         !.row = SaveRow(updTx.row, videoInstance)]
               /\ videoInstance' = [videoInstance EXCEPT !.changed = {}]
               /\ updLog' = Append(updLog, "save")
               /\ UNCHANGED updFlags
          [] step = "tags" ->
               /\ updTx' = [updTx EXCEPT !.done = @ + 1,
                    !.tags = IF Defined(patch.tags) THEN patch.tags[1] ELSE @]
               /\ UNCHANGED <<videoInstance, updFlags, updLog>>
          [] step = "channel" ->
               /\ updTx' = [updTx EXCEPT !.done = @ + 1,
                    !.row = IF moves THEN [@ EXCEPT !.channelId = updIn.channel[1]] ELSE @]
               /\ videoInstance' = IF moves
                    THEN [videoInstance EXCEPT !.data.channelId = updIn.channel[1]]
                    ELSE videoInstance
               /\ updLog' = IF NeedsChangeShare(moves, updFlags.had)
                              THEN Append(updLog, "changeShare") ELSE updLog
               /\ UNCHANGED updFlags
          [] step = "schedule" ->
               /\ updTx' = [updTx EXCEPT !.done = @ + 1,
                    !.schedule = ScheduleAfter(@, patch.scheduleUpdate)]
               /\ UNCHANGED <<videoInstance, updFlags, updLog>>
          [] step = "federate" ->
               /\ updTx' = [updTx EXCEPT !.done = @ + 1]
               /\ updLog' = Append(updLog, "federate")
               /\ UNCHANGED <<videoInstance, updFlags>>
          [] OTHER ->
               /\ updTx' = [updTx EXCEPT !.done = @ + 1]
               /\ UNCHANGED <<videoInstance, updFlags, updLog>>
  /\ UNCHANGED <<updIn, updPc, updAttempt, videoFieldsSave, updDb, updOrig, updResponse>>
  /\ UNCHANGED nonUpdVars

\* The transaction body returned and the COMMIT went through.
UpdTxCommit ==
  /\ updPc = "tx"
  /\ updTx.done = Len(UpdTxSteps)
  /\ updDb' = [row |-> updTx.row, tags |-> updTx.tags, schedule |-> updTx.schedule]
  /\ updTx' = NoUpdTx
  /\ updLog' = Append(updLog, "commit")
  /\ updPc' = "committed"
  /\ UNCHANGED <<updIn, updAttempt, videoInstance, videoFieldsSave, updFlags, updOrig,
                 updResponse>>
  /\ UNCHANGED nonUpdVars

\* What the retry middleware does with the rethrown error.
AfterUpdFailure(transient) ==
  IF transient /\ updAttempt < MaxAttempts
    THEN /\ updAttempt' = updAttempt + 1
         /\ updPc' = "start"
         /\ updLog' = <<>>
         /\ UNCHANGED updResponse
    ELSE /\ updPc' = "done"
         /\ updResponse' = "error"
         /\ updLog' = updLog \o (IF updTx.done < Len(UpdTxSteps)
                                      /\ UpdTxSteps[updTx.done + 1] = "federate"
                                   THEN <<"federateFailed">> ELSE <<>>)
                             \o <<"rollback">>
         /\ UNCHANGED updAttempt

\* Mutant: the catch block rethrows without resetting the instance.
UpdCatchNoReset ==
  /\ updPc = "tx"
  /\ updTx' = NoUpdTx
  /\ \E transient \in BOOLEAN : AfterUpdFailure(transient)
  /\ UNCHANGED <<updIn, videoInstance, videoFieldsSave, updFlags, updDb, updOrig>>
  /\ UNCHANGED nonUpdVars

\* A statement of the transaction body (or the COMMIT) rejects: the
\* transaction is rolled back, the catch block resets the instance to the
\* snapshot and rethrows.
UpdCatch ==
  /\ updPc = "tx"
  /\ updTx' = NoUpdTx
  /\ videoInstance' = resetSequelizeInstance(videoInstance, videoFieldsSave)
  /\ \E transient \in BOOLEAN : AfterUpdFailure(transient)
  /\ UNCHANGED <<updIn, videoFieldsSave, updFlags, updDb, updOrig>>
  /\ UNCHANGED nonUpdVars

\* Mutant: the subscribers are notified after every update.
UpdRespondAlwaysNotifies ==
  /\ updPc = "committed"
  /\ updLog' = Append(updLog, "notify")
  /\ updResponse' = "204"
  /\ updPc' = "done"
  /\ UNCHANGED <<updIn, updAttempt, videoInstance, videoFieldsSave, updFlags, updTx,
                 updDb, updOrig>>
  /\ UNCHANGED nonUpdVars

\* After the transaction: notify if the video was confidential, answer 204.
UpdRespond ==
  /\ updPc = "committed"
  /\ updLog' = IF updFlags.confidential THEN Append(updLog, "notify") ELSE updLog
  /\ updResponse' = "204"
  /\ updPc' = "done"
  /\ UNCHANGED <<updIn, updAttempt, videoInstance, videoFieldsSave, updFlags, updTx,
                 updDb, updOrig>>
  /\ UNCHANGED nonUpdVars

\* The update group when the request arrives: the validator has loaded the row.
UpdStart(in, db, pc) ==
  /\ updIn = in
  /\ updPc = pc
  /\ updAttempt = 1
  /\ videoInstance = [data |-> db.row, changed |-> {}]
  /\ videoFieldsSave = db.row
  /\ updFlags = [had |-> FALSE, confidential |-> FALSE, isNew |-> FALSE]
  /\ updTx = NoUpdTx
  /\ updDb = db
  /\ updOrig = db
  /\ updLog = <<>>
  /\ updResponse = None

UpdQuiet ==
  UpdStart([patch |-> [nsfw |-> Undefined, privacy |-> Undefined,
                       originallyPublishedAt |-> Undefined, tags |-> Undefined,
                       scheduleUpdate |-> "undefined"],
            channel |-> Undefined],
           [row |-> [nsfw |-> FALSE, privacy |-> "public",
                     originallyPublishedAt |-> "d0", channelId |-> "c1"],
            tags |-> "t0", schedule |-> None],
           "off")

(***************************************************************************)
(*                            addVideoImport                               *)
(***************************************************************************)
\* torrentfile: Undefined, or <<n>> for an uploaded container describing n files.
ImpInputs ==
  [targetUrl : BOOLEAN, magnetUri : BOOLEAN,
   torrentfile : {Undefined} \cup {<<n>> : n \in 0..MaxTorrentFiles},
   thumbnailfile : BOOLEAN, previewfile : BOOLEAN]

NoImpMem ==
  [path |-> None, torrentName |-> FALSE, magnetUri |-> FALSE, targetUrl |-> FALSE,
   torrentMoved |-> FALSE, info |-> None, thumbnailUrl |-> FALSE, built |-> FALSE,
   thumbnail |-> None, preview |-> None, importId |-> 0,
   subtitles |-> 0, subtitle |-> 0, log |-> <<>>]

NoImpResponse == [status |-> None, code |-> None]

NoImpDb == [videos |-> {}, imports |-> <<>>, thumbnails |-> {}, captions |-> {}]

\* addVideoImport: targetUrl first, then a torrent file or a magnet URI;
\* with none of the three the function returns without answering.
ImpDispatch ==
  /\ impPc = "start"
  /\ impMem' = [NoImpMem EXCEPT
       !.torrentMoved = impMem.torrentMoved,
       !.path = IF impIn.targetUrl THEN "youtube-dl"
                ELSE IF impIn.magnetUri \/ Defined(impIn.torrentfile) THEN "torrent"
                ELSE None]
  /\ impPc' = IF impIn.targetUrl THEN "info"
              ELSE IF impIn.magnetUri \/ Defined(impIn.torrentfile) THEN "torrent"
              ELSE "done"
  /\ UNCHANGED <<impIn, impAttempt, impDb, impJobs, impResponse>>
  /\ UNCHANGED nonImpVars

\* Mutant: only an empty container is refused.
IncorrectFilesOnlyEmpty(n) == n = 0

\* `if (parsedTorrent.files.length !== 1)`
IncorrectFiles(n) == n # 1

\* addTorrentImport up to buildVideo.  With a torrent file: move it to its
\* secure name, parse it, refuse a container that does not describe one file.
\* Otherwise: decode the magnet URI.  (On a retried attempt the torrent file
\* already is at its secure name; the move of a file onto itself may reject.)
ImpTorrentPrepare ==
  /\ impPc = "torrent"
  /\ IF Defined(impIn.torrentfile)
       THEN \/ /\ IncorrectFiles(impIn.torrentfile[1])
               /\ impResponse' = [status |-> "badRequest", code |-> "incorrectFilesInTorrent"]
               /\ impMem' = [impMem EXCEPT !.torrentName = TRUE, !.torrentMoved = TRUE]
               /\ impPc' = "done"
            \/ /\ ~IncorrectFiles(impIn.torrentfile[1])
               /\ impMem' = [impMem EXCEPT !.torrentName = TRUE, !.torrentMoved = TRUE]
               /\ impPc' = "build"
               /\ UNCHANGED impResponse
            \/ /\ impMem.torrentMoved
               /\ impResponse' = [status |-> "error", code |-> None]
               /\ impPc' = "done"
               /\ UNCHANGED impMem
       ELSE /\ impMem' = [impMem EXCEPT !.magnetUri = TRUE]
            /\ impPc' = "build"
            /\ UNCHANGED impResponse
  /\ UNCHANGED <<impIn, impAttempt, impDb, impJobs>>
  /\ UNCHANGED nonImpVars

\* Mutant: a failed metadata fetch is logged and the import goes on.
ImpYoutubeDLInfoGoesOn ==
  /\ impPc = "info"
  /\ \E ok \in BOOLEAN, thumbnailUrl \in BOOLEAN :
       /\ impMem' = [impMem EXCEPT !.targetUrl = TRUE,
                       !.info = IF ok THEN "fetched" ELSE "failed",
                       !.thumbnailUrl = ok /\ thumbnailUrl]
       /\ impPc' = "build"
  /\ UNCHANGED <<impIn, impAttempt, impDb, impJobs, impResponse>>
  /\ UNCHANGED nonImpVars

\* addYoutubeDLImport up to buildVideo: youtubeDL.getYoutubeDLInfo(), and
\* the 400 answer when it rejects.
ImpYoutubeDLInfo ==
  /\ impPc = "info"
  /\ \/ \E thumbnailUrl \in BOOLEAN :
          /\ impMem' = [impMem EXCEPT !.targetUrl = TRUE, !.info = "fetched",
                                      !.thumbnailUrl = thumbnailUrl]
          /\ impPc' = "build"
          /\ UNCHANGED impResponse
     \/ /\ impMem' = [impMem EXCEPT !.targetUrl = TRUE, !.info = "failed"]
        /\ impResponse' = [status |-> "badRequest", code |-> "cannotFetchRemoteInformation"]
        /\ impPc' = "done"
  /\ UNCHANGED <<impIn, impAttempt, impDb, impJobs>>
  /\ UNCHANGED nonImpVars

\* processThumbnail / processPreview: the uploaded file, if there is one.
FromUpload(uploaded) == IF uploaded THEN "uploaded" ELSE None

\* processThumbnailFromUrl / processPreviewFromUrl, by what the fetch does:
\* "ok"; "throws" (createVideoMiniatureFromUrl throws before returning its
\* promise: caught, logged, undefined); "rejects" (the returned promise
\* rejects: it is returned un-awaited from inside the try, so the catch does
\* not see it and the caller's await throws).
FromUrl(outcome) == IF outcome = "ok" THEN "url" ELSE None

\* buildVideo, then the thumbnail and the preview: the uploaded file first;
\* on the youtube-dl path, when there is none and the extractor gave a
\* thumbnail URL, the fetch from that URL.
ImpBuild ==
  /\ impPc = "build"
  /\ LET useUrl(uploaded) == impMem.path = "youtube-dl" /\ ~uploaded /\ impMem.thumbnailUrl
     IN \E o1, o2 \in {"ok", "throws", "rejects"} :
          /\ useUrl(impIn.thumbnailfile) \/ o1 = "ok"
          /\ (useUrl(impIn.previewfile) /\ o1 # "rejects") \/ o2 = "ok"
          /\ LET thumbnail == IF useUrl(impIn.thumbnailfile)
                                THEN FromUrl(o1) ELSE FromUpload(impIn.thumbnailfile)
                 preview == IF useUrl(impIn.previewfile)
                              THEN FromUrl(o2) ELSE FromUpload(impIn.previewfile)
                 logged == (IF o1 = "throws" THEN <<"thumbnailWarn">> ELSE <<>>)
                             \o (IF o2 = "throws" THEN <<"previewWarn">> ELSE <<>>)
             IN IF "rejects" \in {o1, o2}
                  THEN /\ impMem' = [impMem EXCEPT !.built = TRUE,
                                       !.log = @ \o <<"fetchRejected">>]
                       /\ impResponse' = [status |-> "error", code |-> None]
                       /\ impPc' = "done"
                  ELSE /\ impMem' = [impMem EXCEPT !.built = TRUE,
                                       !.thumbnail = thumbnail, !.preview = preview,
                                       !.log = @ \o logged]
                       /\ impPc' = "insert"
                       /\ UNCHANGED impResponse
  /\ UNCHANGED <<impIn, impAttempt, impDb, impJobs>>
  /\ UNCHANGED nonImpVars

\* Mutant: the magnet URI of the request body goes onto every row.
ImportRowWithBodyMagnet(mem, videoId) ==
  [videoId |-> videoId, magnetUri |-> impIn.magnetUri, torrentName |-> mem.torrentName,
   targetUrl |-> mem.targetUrl]

\* The import row as insertIntoDB creates it from videoImportAttributes.
ImportRow(mem, videoId) ==
  [videoId |-> videoId, magnetUri |-> mem.magnetUri, torrentName |-> mem.torrentName,
   targetUrl |-> mem.targetUrl]

\* insertIntoDB: one transaction saving the video, its thumbnails, the
\* blacklist entry, the tags and the import row.
ImpInsert ==
  /\ impPc = "insert"
  /\ LET id == impAttempt
     IN /\ impDb' = [impDb EXCEPT
             !.videos = @ \cup {id},
             !.thumbnails = @ \cup
                 ({<<id, "miniature", impMem.thumbnail>>, <<id, "preview", impMem.preview>>}
                    \ {<<id, "miniature", None>>, <<id, "preview", None>>}),
             !.imports = [i \in DOMAIN @ \cup {id} |->
                            IF i = id THEN ImportRow(impMem, id) ELSE @[i]]]
        /\ impMem' = [impMem EXCEPT !.importId = id]
  /\ impPc' = IF impMem.path = "youtube-dl" THEN "subtitles" ELSE "job"
  /\ UNCHANGED <<impIn, impAttempt, impJobs, impResponse>>
  /\ UNCHANGED nonImpVars

\* insertIntoDB's transaction rejects: nothing of it is durable.  A transient
\* conflict makes the retry middleware run the handler again.
ImpInsertFail ==
  /\ impPc = "insert"
  /\ \E transient \in BOOLEAN :
       IF transient /\ impAttempt < MaxAttempts
         THEN /\ impAttempt' = impAttempt + 1
              /\ impPc' = "start"
              /\ UNCHANGED impResponse
         ELSE /\ impPc' = "done"
              /\ impResponse' = [status |-> "error", code |-> None]
              /\ UNCHANGED impAttempt
  /\ impMem' = [impMem EXCEPT !.log = Append(@, "insertFailed")]
  /\ UNCHANGED <<impIn, impDb, impJobs>>
  /\ UNCHANGED nonImpVars

\* youtubeDL.getYoutubeDLSubs() inside the try: the list, or a rejection that
\* the catch logs.
ImpGetSubtitles ==
  /\ impPc = "subtitles"
  /\ \/ \E n \in 0..MaxSubtitles :
          /\ impMem' = [impMem EXCEPT !.subtitles = n, !.subtitle = 0]
          /\ impPc' = IF n = 0 THEN "job" ELSE "subtitle"
     \/ /\ impMem' = [impMem EXCEPT !.log = Append(@, "subtitlesWarn")]
        /\ impPc' = "job"
  /\ UNCHANGED <<impIn, impAttempt, impDb, impJobs, impResponse>>
  /\ UNCHANGED nonImpVars

\* One turn of the `for` loop: move the caption file and insert the caption.
\* The loop is inside the try: a rejection leaves the loop for the catch.
ImpSubtitle ==
  /\ impPc = "subtitle"
  /\ LET k == impMem.subtitle + 1
     IN \/ /\ impDb' = [impDb EXCEPT !.captions = @ \cup {<<impMem.importId, k>>}]
           /\ impMem' = [impMem EXCEPT !.subtitle = k]
           /\ impPc' = IF k = impMem.subtitles THEN "job" ELSE "subtitle"
        \/ /\ impMem' = [impMem EXCEPT !.log = Append(@, "subtitlesWarn")]
           /\ impPc' = "job"
           /\ UNCHANGED impDb
  /\ UNCHANGED <<impIn, impAttempt, impJobs, impResponse>>
  /\ UNCHANGED nonImpVars

\* Mutant: every torrent import is queued as a magnet import.
PayloadTypeAlwaysMagnet(path, hasTorrentfile) ==
  IF path = "youtube-dl" THEN "youtube-dl" ELSE "magnet-uri"

\* The `type` of the job payload: 'youtube-dl' in addYoutubeDLImport,
\* `torrentfile ? 'torrent-file' : 'magnet-uri'` in addTorrentImport.
PayloadType(path, hasTorrentfile) ==
  IF path = "youtube-dl" THEN "youtube-dl"
  ELSE IF hasTorrentfile THEN "torrent-file" ELSE "magnet-uri"

\* await JobQueue.Instance.createJobWithPromise({ type: 'video-import', payload })
ImpEnqueue ==
  /\ impPc = "job"
  /\ \/ /\ impJobs' = Append(impJobs,
             [type |-> PayloadType(impMem.path, Defined(impIn.torrentfile)),
              videoImportId |-> impMem.importId,
              magnetUri |-> impMem.magnetUri])
        /\ impPc' = "respond"
        /\ UNCHANGED impResponse
     \/ /\ impResponse' = [status |-> "error", code |-> None]
        /\ impPc' = "done"
        /\ UNCHANGED impJobs
  /\ UNCHANGED <<impIn, impAttempt, impMem, impDb>>
  /\ UNCHANGED nonImpVars

\* return res.json(videoImport.toFormattedJSON()).end()
ImpRespond ==
  /\ impPc = "respond"
  /\ impResponse' = [status |-> "ok", code |-> None]
  /\ impPc' = "done"
  /\ UNCHANGED <<impIn, impAttempt, impMem, impDb, impJobs>>
  /\ UNCHANGED nonImpVars

ImpStart(in, pc) ==
  /\ impIn = in
  /\ impPc = pc
  /\ impAttempt = 1
  /\ impMem = NoImpMem
  /\ impDb = NoImpDb
  /\ impJobs = <<>>
  /\ impResponse = NoImpResponse

ImpQuiet ==
  ImpStart([targetUrl |-> FALSE, magnetUri |-> FALSE, torrentfile |-> Undefined,
            thumbnailfile |-> FALSE, previewfile |-> FALSE], "off")

(***************************************************************************)
(*                               buildVideo                                *)
(***************************************************************************)
\* A value v is <<v>>, `undefined` is Undefined, `null` is <<"null">>.
BvBodies ==
  [name : {Undefined, <<"n1">>},
   category : {Undefined, <<"c1">>},
   nsfw : {Undefined, <<TRUE>>, <<FALSE>>},
   description : {Undefined, <<"d1">>},
   originallyPublishedAt : {Undefined, <<"null">>, <<"date1">>}]

\* What the extractor gives (on the torrent paths: a name and nothing else).
BvImportData ==
  [name : {Undefined, <<"n2">>},
   category : {Undefined, <<"c2">>},
   nsfw : {Undefined, <<TRUE>>, <<FALSE>>},
   description : {Undefined, <<"d2">>},
   originallyPublishedAt : {Undefined, <<"date2">>}]

\* JavaScript truthiness of a string-valued operand.
TruthyText(x) == Defined(x) /\ x[1] \notin {"", "null"}

\* JavaScript truthiness of a boolean-valued operand.
TruthyBool(x) == Defined(x) /\ x[1]

\* `a || b` on string-valued operands
OrText(a, b) == IF TruthyText(a) THEN a ELSE b

\* `a || b` on boolean-valued operands
OrBool(a, b) == IF TruthyBool(a) THEN a ELSE b

\* `nsfw: body.nsfw || importData.nsfw || false`
buildNsfw(body, importData) == OrBool(OrBool(body.nsfw, importData.nsfw), <<FALSE>>)

\* buildVideo(channelId, body, importData): the merged fields of the descriptor.
buildVideo(body, importData) ==
  [name |-> OrText(OrText(body.name, importData.name), <<"Unknown name">>),
   category |-> OrText(body.category, importData.category),
   nsfw |-> buildNsfw(body, importData),
   description |-> OrText(body.description, importData.description),
   originallyPublishedAt |->
     IF TruthyText(body.originallyPublishedAt)
       THEN body.originallyPublishedAt ELSE importData.originallyPublishedAt]

\* One call of buildVideo.
BuildVideo ==
  /\ bvPc = "start"
  /\ bvVideo' = buildVideo(bvBody, bvImportData)
  /\ bvPc' = "built"
  /\ UNCHANGED <<bvBody, bvImportData>>
  /\ UNCHANGED nonBvVars

BvStart(body, importData, pc) ==
  /\ bvBody = body
  /\ bvImportData = importData
  /\ bvVideo = Nil
  /\ bvPc = pc

BvQuiet ==
  BvStart([name |-> Undefined, category |-> Undefined, nsfw |-> Undefined,
           description |-> Undefined, originallyPublishedAt |-> Undefined],
          [name |-> Undefined, category |-> Undefined, nsfw |-> Undefined,
           description |-> Undefined, originallyPublishedAt |-> Undefined], "off")

(***************************************************************************)
(*                           Specifications                                *)
(***************************************************************************)
InitView ==
  /\ ViewQuiet
  /\ AddQuiet
  /\ UpdQuiet
  /\ ImpQuiet
  /\ BvQuiet

NextView ==
  \/ \E r \in ViewReqs, ip \in Ips, v \in ViewVideos : ViewVideoCheck(r, ip, v)
  \/ \E r \in ViewReqs : ViewVideoRecord(r)
  \/ \E ip \in Ips, v \in ViewVideos : ExpireView(ip, v)

\* Requests one after the other: a request starts when none is in flight.
NextViewSeq ==
  \/ \E r \in ViewReqs, ip \in Ips, v \in ViewVideos :
        NoViewInFlight /\ ViewVideoCheck(r, ip, v)
  \/ \E r \in ViewReqs : ViewVideoRecord(r)
  \/ \E ip \in Ips, v \in ViewVideos : ExpireView(ip, v)

SpecView == InitView /\ [][NextView]_vars

SpecViewSeq == InitView /\ [][NextViewSeq]_vars

InitAdd ==
  /\ \E in \in AddInputs : AddStart(in, "start")
  /\ ViewQuiet
  /\ UpdQuiet
  /\ ImpQuiet
  /\ BvQuiet

InitUpd ==
  /\ \E patch \in UpdPatches, channel \in {Undefined, <<"c1">>, <<"c2">>},
        row \in UpdRows, schedule \in {None, "s0"} :
       UpdStart([patch |-> patch, channel |-> channel],
                [row |-> row, tags |-> "t0", schedule |-> schedule], "start")
  /\ ViewQuiet
  /\ AddQuiet
  /\ ImpQuiet
  /\ BvQuiet

NextUpd ==
  \/ UpdBegin
  \/ UpdTxStep
  \/ UpdTxCommit
  \/ UpdCatch
  \/ UpdRespond

SpecUpd == InitUpd /\ [][NextUpd]_vars

InitImp ==
  /\ \E in \in ImpInputs : ImpStart(in, "start")
  /\ ViewQuiet
  /\ AddQuiet
  /\ UpdQuiet
  /\ BvQuiet

NextImp ==
  \/ ImpDispatch
  \/ ImpTorrentPrepare
  \/ ImpYoutubeDLInfo
  \/ ImpBuild
  \/ ImpInsert
  \/ ImpInsertFail
  \/ ImpGetSubtitles
  \/ ImpSubtitle
  \/ ImpEnqueue
  \/ ImpRespond

SpecImp == InitImp /\ [][NextImp]_vars

InitBuildVideo ==
  /\ \E body \in BvBodies, importData \in BvImportData : BvStart(body, importData, "start")
  /\ ViewQuiet
  /\ AddQuiet
  /\ UpdQuiet
  /\ ImpQuiet

NextBuildVideo == BuildVideo

SpecBuildVideo == InitBuildVideo /\ [][NextBuildVideo]_vars

NextAdd ==
  \/ AddBuild
  \/ AddProbeFail
  \/ AddMove
  \/ AddTxBegin
  \/ AddTxStep
  \/ AddTxCommit
  \/ AddTxFail
  \/ AddStartChain
  \/ AddEnqueueJob
  \/ AddRespond
  \/ ChainCreateTorrent
  \/ ChainReloadFile
  \/ ChainSaveFile
  \/ ChainLoadVideo
  \/ ChainFederate
  \/ RemoveVideo
  \/ OtherFileUpdate

SpecAdd == InitAdd /\ [][NextAdd]_vars

(***************************************************************************)
(*                               Claims                                    *)
(***************************************************************************)
Range(s) == {s[i] : i \in DOMAIN s}

FilesOf(id) == {f \in DOMAIN dbFiles : dbFiles[f].videoId = id}

\* C1: for an AddVideo call, in every durable state either exactly one video
\* row and exactly one file row of that call are committed together, or none:
\* no video row without its file row, no file row without its video row.
C1_AddAtomic ==
  /\ Cardinality(DOMAIN dbVideos) <= 1
  /\ \A id \in DOMAIN dbVideos : Cardinality(FilesOf(id)) = 1
  /\ \A f \in DOMAIN dbFiles : dbFiles[f].videoId \in DOMAIN dbVideos

\* C1 witness: an attempt failed after video.save() and before videoFile.save(),
\* and a later attempt of the same call committed.
C1_Witness ==
  /\ addFailedAt \cap {1, 2, 3} # {}
  /\ DOMAIN dbVideos # {}
  /\ addResponse.status = "ok"

DoneViewReqs(v) == {r \in ViewReqs : viewReq[r].pc = "done" /\ viewReq[r].video = v}

\* The dedup windows (viewer, window number) in which requests for v were made.
ViewWindows(v) == {<<viewReq[r].ip, viewReq[r].epoch>> : r \in DoneViewReqs(v)}

\* C4: with requests made one after the other, the counter that is relevant
\* for a video (VOD counter, or live aggregator for a local live) counts one
\* view per viewer and dedup window: a second call inside the window adds
\* nothing, a call after the entry expired adds one again.
C4_OncePerWindow ==
  \A v \in {"vod", "liveLocal"} :
    NoViewInFlight => vodViews[v] + liveViews[v] = Cardinality(ViewWindows(v))

\* C4 witness: same viewer and video: a counted call, a deduplicated call in
\* the same window, and a counted call after the expiry.
C4_Witness ==
  \E r1, r2, r3 \in ViewReqs :
    /\ viewReq[r1].pc = "done" /\ viewReq[r2].pc = "done" /\ viewReq[r3].pc = "done"
    /\ viewReq[r1].ip = viewReq[r2].ip /\ viewReq[r2].ip = viewReq[r3].ip
    /\ viewReq[r1].video = "vod" /\ viewReq[r2].video = "vod" /\ viewReq[r3].video = "vod"
    /\ viewReq[r1].epoch = 0 /\ ~viewReq[r1].exists
    /\ viewReq[r2].epoch = 0 /\ viewReq[r2].exists
    /\ viewReq[r3].epoch = 1 /\ ~viewReq[r3].exists
    /\ vodViews["vod"] = 2

\* C5 as stated: a view of a live video, local or remote, never increments the
\* VOD counter and is never federated directly.
C5_Original ==
  \A v \in ViewVideos : isLive(v) => vodViews[v] = 0 /\ sentViews[v] = 0

\* C5 amended: a view of a live video never increments the VOD counter; it is
\* not federated directly when the live is owned by this instance, and it is
\* federated directly when the live belongs to a remote instance.
C5_LiveView ==
  /\ \A v \in ViewVideos : isLive(v) => vodViews[v] = 0
  /\ \A v \in ViewVideos : isLive(v) /\ isOwned(v) => sentViews[v] = 0
  /\ \A r \in ViewReqs :
       (viewReq[r].pc = "done" /\ ~viewReq[r].exists /\ viewReq[r].video = "liveRemote")
         => sentViews["liveRemote"] >= 1

\* C5 witness: counted views of a local live and of a remote live.
C5_Witness ==
  /\ liveViews["liveLocal"] >= 1
  /\ \E r \in ViewReqs :
       viewReq[r].pc = "done" /\ ~viewReq[r].exists /\ viewReq[r].video = "liveRemote"

\* C6: when the file row is gone at the reload, the torrent stage writes no file
\* row, removes the torrent artifact it made and ends without error; when the
\* row is there, info-hash and torrent filename go onto the row as it is in the
\* database, keeping what other workers changed (not the stale in-memory file).
C6_TorrentStage ==
  /\ "torrentDiscarded" \in Range(chainLog) =>
       /\ memFile.id \notin torrentFiles
       /\ fileWrites = 0
       /\ memFile.id \notin DOMAIN dbFiles
       /\ "torrentFailed" \notin Range(chainLog)
       /\ chainPc \in {"loadVideo", "federate", "done"}
  /\ ("infoHashSaved" \in Range(chainLog) /\ memFile.id \in DOMAIN dbFiles) =>
       /\ refreshedFile # Nil
       /\ dbFiles[memFile.id].infoHash = memFile.infoHash
       /\ dbFiles[memFile.id].torrentFilename = memFile.torrentFilename
       /\ dbFiles[memFile.id].infoHash # Nil
       /\ dbFiles[memFile.id].rev >= refreshedFile[1].rev
       /\ fileWrites = 1

\* C6 witness: the video was removed while the torrent was made, and the chain
\* has ended.
C6_Witness ==
  /\ chainPc = "done"
  /\ "torrentDiscarded" \in Range(chainLog)
  /\ addResponse.status = "ok"

\* The value the update is meant to leave in nsfw: the patch applied once to
\* the value the video had when the request arrived.
IntendedNsfw ==
  IF Defined(updIn.patch.nsfw) THEN updIn.patch.nsfw[1] ELSE updOrig.row.nsfw

\* C2: when an UpdateVideo attempt fails, the in-memory instance is back at the
\* snapshot taken before the first attempt when the error is surfaced (to the
\* retry middleware or to the client); after any number of failed attempts a
\* successful update leaves nsfw, in memory and in the database, at the patch
\* applied once to the original value.
C2_ResetOnFailure ==
  /\ ((updPc = "start" /\ updAttempt > 1) \/ updResponse = "error") =>
       videoInstance.data = updOrig.row
  /\ updResponse = "204" =>
       /\ videoInstance.data.nsfw = IntendedNsfw
       /\ updDb.row.nsfw = IntendedNsfw

\* C2 witness: two failed attempts, then a successful one, of an update that
\* toggles nsfw.
C2_Witness ==
  /\ updAttempt = 3
  /\ updResponse = "204"
  /\ updIn.patch.nsfw = <<~updOrig.row.nsfw>>

LogPos(e) == {i \in DOMAIN updLog : updLog[i] = e}

\* The update takes the video from a federated privacy to one that is not.
LeavesFederation ==
  /\ Defined(updIn.patch.privacy)
  /\ hasPrivacyForFederation(updOrig.row.privacy)
  /\ ~hasPrivacyForFederation(updIn.patch.privacy[1])

\* C3: a retract is issued only when the update takes the video from a
\* federated privacy to a non-federated one, and then inside the transaction,
\* before its commit; once committed, such an update has issued the retract and
\* the persisted privacy is the new value.
C3_RetractBeforeCommit ==
  /\ LogPos("retract") # {} =>
       /\ LeavesFederation
       /\ Cardinality(LogPos("retract")) = 1
       /\ \A i \in LogPos("retract") :
            /\ \E b \in LogPos("begin") : b < i
            /\ \A j \in LogPos("commit") \cup LogPos("rollback") : i < j
  /\ LogPos("commit") # {} =>
       /\ LeavesFederation => LogPos("retract") # {}
       /\ Defined(updIn.patch.privacy) => updDb.row.privacy = updIn.patch.privacy[1]

\* C3 witness: a committed update from public to private, after a failed attempt.
C3_Witness ==
  /\ updResponse = "204"
  /\ updAttempt > 1
  /\ updOrig.row.privacy = "public"
  /\ updDb.row.privacy = "private"
  /\ LogPos("retract") # {}

\* The sources an import request names.
SourcesNamed(in) ==
  (IF in.targetUrl THEN {"targetUrl"} ELSE {})
    \cup (IF in.magnetUri THEN {"magnetUri"} ELSE {})
    \cup (IF Defined(in.torrentfile) THEN {"torrentfile"} ELSE {})

\* The job variant that goes with a source.
VariantOfSource(source) ==
  IF source = "targetUrl" THEN "youtube-dl"
  ELSE IF source = "torrentfile" THEN "torrent-file" ELSE "magnet-uri"

\* The job variant that goes with a committed import row.
VariantOfRow(row) ==
  IF row.targetUrl THEN "youtube-dl"
  ELSE IF row.torrentName THEN "torrent-file" ELSE "magnet-uri"

\* C7 (as stated): an import request that names more than one source, or
\* none, is turned away before any descriptor is built, and nothing is
\* persisted or enqueued for it.  (The part of the statement about the kind
\* of answer is left out: what is stated here already fails.)
C7_Original ==
  Cardinality(SourcesNamed(impIn)) # 1 =>
    /\ ~impMem.built
    /\ impDb = NoImpDb
    /\ impJobs = <<>>

\* C8: a torrent-file import whose container describes a number of files
\* other than one is answered with the "incorrect files in torrent" error,
\* and that request builds no descriptor and creates no thumbnail, import
\* record or job.
C8_IncorrectFiles ==
  (/\ ~impIn.targetUrl
   /\ Defined(impIn.torrentfile)
   /\ impIn.torrentfile # <<1>>) =>
    /\ ~impMem.built
    /\ impDb = NoImpDb
    /\ impJobs = <<>>
    /\ impPc = "done" =>
         impResponse = [status |-> "badRequest", code |-> "incorrectFilesInTorrent"]

C8_Witness ==
  /\ impPc = "done"
  /\ impIn.torrentfile = <<2>>
  /\ impIn.thumbnailfile
  /\ impResponse.code = "incorrectFilesInTorrent"

\* C9: a remote-URL import whose metadata fetch fails ends at once with the
\* "cannot fetch remote information" answer, and there is no persisted
\* descriptor, thumbnail, import record or caption and no enqueued job.
C9_FetchFailure ==
  impMem.info = "failed" =>
    /\ impPc = "done"
    /\ impResponse = [status |-> "badRequest", code |-> "cannotFetchRemoteInformation"]
    /\ impDb = NoImpDb
    /\ impJobs = <<>>

C9_Witness ==
  /\ impMem.info = "failed"
  /\ impAttempt > 1
  /\ impResponse.code = "cannotFetchRemoteInformation"

\* C10: a successful import has enqueued exactly one job before answering;
\* the job's variant is that of the request's source and of the import row
\* it refers to, which is the row this call committed; no job is enqueued
\* before that row is committed.
C10_OneJob ==
  /\ Len(impJobs) <= 1
  /\ \A i \in 1..Len(impJobs) :
       /\ impJobs[i].videoImportId \in DOMAIN impDb.imports
       /\ impJobs[i].videoImportId = impMem.importId
       /\ impJobs[i].type = VariantOfRow(impDb.imports[impJobs[i].videoImportId])
  /\ impResponse.status = "ok" =>
       /\ Len(impJobs) = 1
       /\ \A source \in SourcesNamed(impIn) :
            SourcesNamed(impIn) = {source} => impJobs[1].type = VariantOfSource(source)

C10_Witness ==
  /\ impResponse.status = "ok"
  /\ impAttempt > 1
  /\ SourcesNamed(impIn) = {"torrentfile"}
  /\ Len(impJobs) = 1
  /\ impJobs[1].type = "torrent-file"

\* The transcode job of the video this call built.
TranscodeJob == [type |-> "transcode", videoId |-> memVideo.id]

\* C11: a transcode job is enqueued only for the video this call committed
\* and only when its state is ToTranscode; a success answer is sent with the
\* job enqueued exactly when the state is ToTranscode, and with no job when
\* it is Published.
C11_TranscodeJob ==
  /\ jobs \subseteq {TranscodeJob}
  /\ jobs # {} =>
       /\ memVideo.state = ToTranscode
       /\ addPc \in {"respond", "done"}
       /\ chainPc # None
  /\ memVideo.id \in DOMAIN dbVideos => dbVideos[memVideo.id].state = memVideo.state
  /\ addResponse.status = "ok" => (memVideo.state = ToTranscode <=> TranscodeJob \in jobs)
  /\ memVideo.state = Published => jobs = {}

C11_Witness ==
  /\ addResponse.status = "ok"
  /\ addAttempt > 1
  /\ memVideo.state = ToTranscode
  /\ TranscodeJob \in jobs

\* The places of the chain log where the torrent stage ended, well or not.
TorrentStageEnds ==
  {i \in DOMAIN chainLog : chainLog[i] \in {"infoHashSaved", "torrentDiscarded", "torrentFailed"}}

\* C12: in the detached chain of a video, the notification of subscribers
\* and the federation come only after the torrent stage of that video has
\* ended, with success or with a logged failure.
C12_AfterTorrentStage ==
  /\ \A i \in DOMAIN chainLog :
       chainLog[i] \in {"notify", "federate", "federateFailed"} =>
         \E j \in TorrentStageEnds : j < i
  /\ chainPc \in {"federate", "done"} => TorrentStageEnds # {}

C12_Witness ==
  /\ chainPc = "done"
  /\ chainLog = <<"torrentCreated", "torrentFailed", "notify", "federate">>

\* C13: a failure in the detached chain is only logged.  No step of the chain
\* touches the handler, its answer or its job; once the chain is started the
\* call can only fail on its transcode job, and it answers with the id of the
\* committed video.
C13_ChainDetached ==
  /\ [][(chainPc' # chainPc /\ chainPc # None) =>
          (addResponse' = addResponse /\ addPc' = addPc /\ jobs' = jobs
             /\ addAttempt' = addAttempt)]_vars
  /\ [](chainPc # None =>
          /\ addResponse.status = "error" => (memVideo.state = ToTranscode /\ jobs = {})
          /\ addResponse.status = "ok" => addResponse.video = memVideo.id
          /\ (addPc = "done" /\ memVideo.state = Published) => addResponse.status = "ok")

C13_Witness ==
  /\ addResponse.status = "ok"
  /\ chainPc = "done"
  /\ "torrentFailed" \in Range(chainLog)
  /\ "federateFailed" \in Range(chainLog)

\* C14: a successful update with a scheduled change in the patch leaves that
\* change as the video's scheduled update (created or replaced); with an
\* explicit null it leaves none; with the field absent it leaves what was
\* there, or nothing if nothing was there.  A failed update changes nothing.
C14_ScheduleThreeWays ==
  /\ updResponse = "204" =>
       /\ updIn.patch.scheduleUpdate = "s1" => updDb.schedule = "s1"
       /\ updIn.patch.scheduleUpdate = "null" => updDb.schedule = None
       /\ updIn.patch.scheduleUpdate = "undefined" => updDb.schedule = updOrig.schedule
  /\ updResponse # "204" /\ updPc # "committed" => updDb.schedule = updOrig.schedule

\* C14 witness: an explicit null removed an existing scheduled update, after
\* a failed attempt.
C14_Witness ==
  /\ updResponse = "204"
  /\ updAttempt > 1
  /\ updIn.patch.scheduleUpdate = "null"
  /\ updOrig.schedule = "s0"
  /\ updDb.schedule = None

\* C15 (as stated): after a successful update every field absent from the
\* patch has the persisted value it had before, and every field present in
\* the patch has the patch's value.
C15_Original ==
  updResponse = "204" =>
    /\ \A k \in {"nsfw", "privacy", "originallyPublishedAt"} :
         updDb.row[k] = IF Defined(updIn.patch[k]) THEN updIn.patch[k][1] ELSE updOrig.row[k]
    /\ updDb.tags = IF Defined(updIn.patch.tags) THEN updIn.patch.tags[1] ELSE updOrig.tags

\* What is left of C15 when an explicit null for originallyPublishedAt is
\* counted with the absent fields.
C15_ExceptNullDate ==
  updResponse = "204" =>
    /\ \A k \in {"nsfw", "privacy"} :
         updDb.row[k] = IF Defined(updIn.patch[k]) THEN updIn.patch[k][1] ELSE updOrig.row[k]
    /\ updDb.row.originallyPublishedAt =
         IF updIn.patch.originallyPublishedAt \in {Undefined, <<"null">>}
           THEN updOrig.row.originallyPublishedAt
           ELSE updIn.patch.originallyPublishedAt[1]
    /\ updDb.tags = IF Defined(updIn.patch.tags) THEN updIn.patch.tags[1] ELSE updOrig.tags

\* The captions inserted for the import row of this call.
CaptionsOfImport == {c \in impDb.captions : c[1] = impMem.importId}

\* C16 (as stated): when the processing of one discovered subtitle fails,
\* every other discovered subtitle is still inserted (so at most one of the
\* discovered subtitles is missing once the subtitles are done), and the
\* import goes on to its job and its answer.
C16_Original ==
  (impMem.path = "youtube-dl" /\ impPc \in {"job", "respond", "done"}
     /\ impMem.subtitles > 0) =>
    /\ Cardinality(CaptionsOfImport) >= impMem.subtitles - 1
    /\ impResponse.status = "error" => impJobs = <<>>

\* A fetch of the thumbnail or the preview from the extractor's URL failed
\* in this attempt.
FetchFailed ==
  Range(impMem.log) \cap {"thumbnailWarn", "previewWarn", "fetchRejected"} # {}

\* C17 (as stated): a failed fetch from the extractor's URL leaves its slot
\* empty and never ends the import: a call that failed after such a fetch
\* failed in the persistence or at the enqueue, not at the fetch.
C17_Original ==
  FetchFailed =>
    /\ impMem.thumbnail # "url" \/ impMem.preview # "url"
    /\ (impPc = "done" /\ impResponse.status = "error") =>
         ("insertFailed" \in Range(impMem.log) \/ impMem.importId \in DOMAIN impDb.imports)

\* The source attributes that are set on an import row.
SourcesOfRow(row) == {k \in {"magnetUri", "torrentName", "targetUrl"} : row[k]}

\* C19: every persisted import row has exactly one of magnetUri, torrentName
\* and targetUrl set, whatever sources the request named.
C19_ExactlyOneSource ==
  \A id \in DOMAIN impDb.imports : Cardinality(SourcesOfRow(impDb.imports[id])) = 1

\* C19 witness: the row of a request that named both a magnet URI and a
\* torrent file.
C19_Witness ==
  /\ impIn.magnetUri /\ Defined(impIn.torrentfile) /\ ~impIn.targetUrl
  /\ impMem.importId \in DOMAIN impDb.imports
  /\ SourcesOfRow(impDb.imports[impMem.importId]) = {"torrentName"}
  /\ impResponse.status = "ok"

\* The requests of one viewer for one video that found no dedup entry in
\* window e, and counted a view.
CountedViews(ip, v, e) ==
  {r \in ViewReqs : /\ viewReq[r].pc = "done" /\ ~viewReq[r].exists
                    /\ viewReq[r].ip = ip /\ viewReq[r].video = v /\ viewReq[r].epoch = e}

\* C20 (as stated): with concurrent requests of one viewer for one video,
\* the views counted within one dedup window exceed one by at most one.
C20_Original ==
  \A ip \in Ips, v \in {"vod", "liveLocal"}, e \in 0..MaxEpoch :
    Cardinality(CountedViews(ip, v, e)) <= 2

\* The rest of C20: the counters hold what the requests counted, the dedup
\* store holds only pairs some request has set.
C20_NoCorruption ==
  /\ \A v \in ViewVideos :
       vodViews[v] + liveViews[v] =
         IF v = "liveRemote" THEN 0
         ELSE Cardinality({r \in ViewReqs : viewReq[r].pc = "done" /\ ~viewReq[r].exists
                                             /\ viewReq[r].video = v})
  /\ \A k \in viewKeys :
       \E r \in ViewReqs : viewReq[r].pc = "done" /\ ~viewReq[r].exists
                              /\ k = <<viewReq[r].ip, viewReq[r].video>>

\* The merge the claim describes for a text field: the request's value when
\* the request has one, else the extractor's, else the default.
MergedText(k, default) ==
  IF Defined(bvBody[k]) /\ bvBody[k] # <<"null">> THEN bvBody[k]
  ELSE IF Defined(bvImportData[k]) THEN bvImportData[k] ELSE default

\* C18 (as stated): every field of the built descriptor is the request's
\* value when the request gives one (an explicit false for nsfw included),
\* else the extractor's value when there is one, else the default.
C18_Original ==
  bvPc = "built" =>
    /\ bvVideo.name = MergedText("name", <<"Unknown name">>)
    /\ bvVideo.category = MergedText("category", Undefined)
    /\ bvVideo.description = MergedText("description", Undefined)
    /\ bvVideo.originallyPublishedAt = MergedText("originallyPublishedAt", Undefined)
    /\ bvVideo.nsfw = IF Defined(bvBody.nsfw) THEN bvBody.nsfw
                      ELSE IF Defined(bvImportData.nsfw) THEN bvImportData.nsfw
                      ELSE <<FALSE>>

\* What is left of C18 when an explicit false for nsfw is counted as no
\* value given.
C18_ExceptNsfwFalse ==
  bvPc = "built" =>
    /\ bvVideo.name = MergedText("name", <<"Unknown name">>)
    /\ bvVideo.category = MergedText("category", Undefined)
    /\ bvVideo.description = MergedText("description", Undefined)
    /\ bvVideo.originallyPublishedAt = MergedText("originallyPublishedAt", Undefined)
    /\ bvVideo.nsfw = IF bvBody.nsfw = <<TRUE>> THEN <<TRUE>>
                      ELSE IF Defined(bvImportData.nsfw) THEN bvImportData.nsfw
                      ELSE <<FALSE>>

\* The log entries of the stages that come after the torrent stage.
LaterStages == {"notify", "videoMissing", "loadFailed", "federate", "federateFailed"}

\* C21 (as stated): once the torrent stage of a video's chain has failed, no
\* later stage of the chain (re-read, notification, federation) runs.
C21_Original ==
  \A i, j \in DOMAIN chainLog :
    (i < j /\ chainLog[i] = "torrentFailed") => chainLog[j] \notin LaterStages

\* C21 amended: a failed torrent stage is logged and the chain goes on to the
\* re-read of the video (and from there to notification and federation); a
\* failure of the re-read or of the federation ends the chain.
C21_ChainGoesOn ==
  /\ "torrentFailed" \in Range(chainLog) =>
       /\ chainPc \in {"loadVideo", "federate", "done"}
       /\ chainPc \in {"federate", "done"} =>
            \E i, j \in DOMAIN chainLog :
              /\ i < j /\ chainLog[i] = "torrentFailed"
              /\ chainLog[j] \in {"notify", "videoMissing", "loadFailed"}
  /\ \A i \in DOMAIN chainLog :
       chainLog[i] \in {"loadFailed", "videoMissing", "federateFailed"} =>
         (i = Len(chainLog) /\ chainPc = "done")

\* C21 witness: the torrent could not be created, and the video was notified
\* and federated all the same.
C21_Witness ==
  /\ chainPc = "done"
  /\ chainLog = <<"torrentFailed", "notify", "federate">>
  /\ addResponse.status = "ok"

\* C22: in every attempt of AddVideo the file is where videoPhysicalFile says
\* (so the move of a retried attempt finds it and does not fail for a source
\* that is gone); after the move of an attempt the file is at that attempt's
\* destination, and the committed file row names the path where the file is.
C22_MoveRepeatable ==
  /\ physFile.path = physFile.at
  /\ addPc \in {"moved", "tx", "committed", "job", "respond"} =>
       physFile.at = getVideoFilePath(memFile)
  /\ \A f \in DOMAIN dbFiles : physFile.at = getVideoFilePath(dbFiles[f])

\* C22 witness: the third attempt committed, the file is at the path of the
\* committed row.
C22_Witness ==
  /\ addAttempt = 3
  /\ addResponse.status = "ok"
  /\ \E f \in DOMAIN dbFiles : physFile.at = <<"videos", <<"file", 3>>>>

\* C23: a successful update notifies the local subscribers, once and after
\* the commit, exactly when the video was confidential before the update; an
\* update that does not succeed notifies nobody.
C23_NotifyIfConfidential ==
  /\ updResponse = "204" =>
       (LogPos("notify") # {} <=> isConfidential(updOrig.row.privacy))
  /\ updResponse # "204" => LogPos("notify") = {}
  /\ Cardinality(LogPos("notify")) <= 1
  /\ \A i \in LogPos("notify") : \E j \in LogPos("commit") : j < i

\* C23 witness: a private video made public by an update that succeeded at
\* its second or third attempt.
C23_Witness ==
  /\ updResponse = "204"
  /\ updAttempt > 1
  /\ updOrig.row.privacy = "private"
  /\ updIn.patch.privacy = <<"public">>
  /\ LogPos("notify") # {}

\* C24 (as stated): the federation of the updated video comes after the
\* commit, and no failure of the federation makes the update fail.
C24_Original ==
  /\ \A i \in LogPos("federate") : \E j \in LogPos("commit") : j < i
  /\ LogPos("federateFailed") = {}

\* C24 amended: the federation of the updated video is the last statement of
\* the transaction body: it comes after the begin and before the commit, no
\* update commits without it, and when it fails the update fails and
\* nothing of it is persisted.
C24_FederateInTransaction ==
  /\ \A i \in LogPos("federate") :
       /\ \E b \in LogPos("begin") : b < i
       /\ \A j \in LogPos("commit") : i < j
  /\ LogPos("commit") # {} => LogPos("federate") # {}
  /\ LogPos("federateFailed") # {} =>
       /\ updResponse = "error"
       /\ LogPos("commit") = {}
       /\ updDb = updOrig

\* C24 witness: the federation failed after the save of a changed nsfw; the
\* update failed and the row is as it was.
C24_Witness ==
  /\ LogPos("federateFailed") # {}
  /\ LogPos("save") # {}
  /\ updIn.patch.nsfw = <<~updOrig.row.nsfw>>
  /\ updDb = updOrig

\* The update names a channel other than the one the video had.
ChannelMoves ==
  Defined(updIn.channel) /\ updIn.channel[1] # updOrig.row.channelId

\* C25: the share is moved only when the update names another channel and
\* the video was federated before the update, and then inside the
\* transaction; a committed update has re-assigned the video exactly when it
\* names another channel and has moved the share exactly when, in addition,
\* the video was federated before; a failed update leaves the channel.
C25_ChannelChange ==
  /\ LogPos("changeShare") # {} =>
       /\ ChannelMoves /\ hasPrivacyForFederation(updOrig.row.privacy)
       /\ Cardinality(LogPos("changeShare")) = 1
       /\ \A i \in LogPos("changeShare") :
            /\ \E b \in LogPos("begin") : b < i
            /\ \A j \in LogPos("commit") \cup LogPos("rollback") : i < j
  /\ LogPos("commit") # {} =>
       /\ LogPos("changeShare") # {} <=>
            (ChannelMoves /\ hasPrivacyForFederation(updOrig.row.privacy))
       /\ updDb.row.channelId =
            IF ChannelMoves THEN updIn.channel[1] ELSE updOrig.row.channelId
  /\ LogPos("commit") = {} => updDb.row.channelId = updOrig.row.channelId

\* C25 witness: a public video moved to another channel by an update that
\* succeeded after a failed attempt.
C25_Witness ==
  /\ updResponse = "204"
  /\ updAttempt > 1
  /\ updOrig.row.privacy = "public"
  /\ updDb.row.channelId = "c2"
  /\ LogPos("changeShare") # {}

\* The requests for v that were not deduplicated and have ended.
CountedReqs(v) ==
  {r \in ViewReqs : viewReq[r].pc = "done" /\ ~viewReq[r].exists /\ viewReq[r].video = v}

\* C26: every call that is not deduplicated sets the dedup key and adds one
\* to the VOD counter and one federated view for a video that is not live
\* (the live aggregator staying as it is), and one to the live aggregator
\* for a live of this instance (the VOD counter staying as it is); a
\* deduplicated call changes no counter, no aggregator, no dedup entry and
\* federates nothing.
C26_ViewEffects ==
  /\ [](\A v \in ViewVideos :
          LET n == Cardinality(CountedReqs(v))
          IN /\ vodViews[v] = IF isLive(v) THEN 0 ELSE n
             /\ liveViews[v] = IF isLive(v) /\ isOwned(v) THEN n ELSE 0
             /\ ~isLive(v) => sentViews[v] = n)
  /\ [][\A r \in ViewReqs :
          /\ (viewReq[r].pc = "idle" /\ viewReq'[r].pc = "done") =>
               UNCHANGED <<viewKeys, vodViews, liveViews, sentViews>>
          /\ (viewReq[r].pc = "checked" /\ viewReq'[r].pc = "done") =>
               <<viewReq[r].ip, viewReq[r].video>> \in viewKeys']_vars

\* C26 witness: a counted view of a VOD, a counted view of a local live and
\* a deduplicated call.
C26_Witness ==
  /\ CountedReqs("vod") # {}
  /\ CountedReqs("liveLocal") # {}
  /\ \E r \in ViewReqs : viewReq[r].pc = "done" /\ viewReq[r].exists

\* C27: as long as no attempt of AddVideo has committed, no detached chain is
\* started, no transcode job is enqueued and no success answer is sent; the
\* handler passes to its post-commit part only from a transaction whose body
\* ran to its end and whose video is durable, and the chain is started only
\* from there.
C27_NothingBeforeCommit ==
  /\ [](addPc \in {"start", "built", "moved", "tx"} =>
          (chainPc = None /\ jobs = {} /\ addResponse.status # "ok"))
  /\ [](chainPc = None => (jobs = {} /\ addResponse.status # "ok"))
  /\ [][(addPc # "committed" /\ addPc' = "committed") =>
          (addTx.done = Len(AddTxSteps) /\ memVideo.id \in DOMAIN dbVideos')]_vars
  /\ [][(chainPc = None /\ chainPc' # None) => addPc = "committed"]_vars

\* C27 witness: every attempt failed in its transaction; the call failed with
\* nothing started.
C27_Witness ==
  /\ addAttempt > 1
  /\ addFailedAt # {}
  /\ addPc = "done"
  /\ addResponse.status = "error"
  /\ chainPc = None
  /\ jobs = {}

\* C28 (as stated): once a torrent stage that met no failure and the removal
\* of its video have both ended, no torrent artifact is left for a file row
\* that is gone.  (The other half, no info-hash on a deleted row, is not in
\* doubt: the save is an update by id and touches no row then.)
C28_Original ==
  (chainPc \in {"loadVideo", "federate", "done"} /\ "torrentFailed" \notin Range(chainLog)) =>
    \A f \in torrentFiles : f \in DOMAIN dbFiles

\* What is left of C28 when the removal does not land between the reload and
\* the save: the row was either gone at the reload, or still there at the save.
C28_OutsideTheWindow ==
  (/\ chainPc \in {"loadVideo", "federate", "done"}
   /\ "torrentFailed" \notin Range(chainLog)
   /\ (refreshedFile = Nil \/ fileWrites = 1)) =>
    \A f \in torrentFiles : f \in DOMAIN dbFiles


\* The calls the chain made, by name.
CallsOf(name) == {i \in DOMAIN chainSent : chainSent[i].call = name}

\* C29: the chain re-reads the video only after the torrent stage has ended;
\* a video that is gone at the re-read is neither notified nor federated;
\* one that exists is notified before federation is attempted, and both
\* calls are handed the re-read video.
C29_RefreshedVideo ==
  /\ chainVideo # Nil => TorrentStageEnds # {}
  /\ chainSent # <<>> => chainVideo # Nil
  /\ "videoMissing" \in Range(chainLog) => chainSent = <<>> /\ chainVideo = Nil
  /\ \A i \in DOMAIN chainSent : chainSent[i].video = chainVideo[1]
  /\ \A i \in CallsOf("federateVideoIfNeeded") :
        \E j \in CallsOf("notifyOnNewVideoIfNeeded") : j < i
  /\ chainVideo # Nil => CallsOf("notifyOnNewVideoIfNeeded") # {}

\* Both calls were made with a re-read video that differs from the object
\* the handler built.
C29_Witness ==
  /\ CallsOf("notifyOnNewVideoIfNeeded") # {}
  /\ CallsOf("federateVideoIfNeeded") # {}
  /\ chainVideo # Nil
  /\ chainVideo[1] # InMemoryVideo

====
